---- MODULE Spec2Model ----
(***************************************************************************)
(* Model of lyra_app.py: the prompt assembler build_prompt, the form       *)
(* wiring around it, the two download buttons and the session history      *)
(* (history.csv) that every render appends to and displays.                *)
(*                                                                         *)
(* Text is a sequence of atoms.  An atom is one character ("a", " ",       *)
(* "\n", a digit ...) or one literal phrase of the source, kept whole      *)
(* ("=== INPUT ===").  Whitespace atoms are " " and "\n".                  *)
(***************************************************************************)
EXTENDS Integers, Sequences, FiniteSets, TLC

\* ------------------------------------------------------------------ bounds
\* Longest rough idea, in atoms, given to build_prompt.
MaxRoughLen == 3
\* Number of renders (script runs) of one behaviour.
MaxRenders == 2

\* ------------------------------------------------------------ text helpers
NL == "\n"
Whitespace == {" ", NL}

RECURSIVE lstrip(_)
lstrip(s) ==
    IF s = <<>> THEN <<>>
    ELSE IF Head(s) \in Whitespace THEN lstrip(Tail(s)) ELSE s

RECURSIVE rstrip(_)
rstrip(s) ==
    IF s = <<>> THEN <<>>
    ELSE IF s[Len(s)] \in Whitespace THEN rstrip(SubSeq(s, 1, Len(s) - 1)) ELSE s


\* str.strip()
strip(s) == rstrip(lstrip(s))

\* "\n".join(lines)
RECURSIVE join(_)
join(lines) ==
    IF lines = <<>> THEN <<>>
    ELSE IF Len(lines) = 1 THEN lines[1]
    ELSE lines[1] \o <<NL>> \o join(Tail(lines))

\* The lines of a text, as a reader of the assembled prompt sees them.
RECURSIVE split(_)
split(s) ==
    LET breaks == {i \in 1..Len(s) : s[i] = NL}
    IN IF breaks = {} THEN <<s>>
       ELSE LET i == CHOOSE k \in breaks : \A j \in breaks : k <= j
            IN <<SubSeq(s, 1, i - 1)>> \o split(SubSeq(s, i + 1, Len(s)))

\* All texts over an alphabet, up to a length.
RECURSIVE Texts(_, _)
Texts(alphabet, n) ==
    IF n = 0 THEN {<<>>}
    ELSE LET shorter == Texts(alphabet, n - 1)
         IN shorter \cup {Append(t, a) : t \in {u \in shorter : Len(u) = n - 1},
                                          a \in alphabet}

\* ------------------------------------------------- literals of build_prompt
PREAMBLE_1A == "You are Lyra, optimizing a user request for "
PREAMBLE_2 == "Follow the 4-D method: Deconstruct, Diagnose, Develop, Deliver."
PREAMBLE_3 == "Return a final, ready-to-run prompt for the target AI."
INPUT_HEADER == "=== INPUT ==="
ANSWERS_HEADER == "=== USER ANSWERS ==="
REQUIREMENTS_HEADER == "=== REQUIREMENTS ==="
MAX_LENGTH_PREFIX == "- Max length/tokens:"
SPECIAL_PREFIX == "- Special constraints:"
CLOSING_BULLET == "- Output must be specific, unambiguous, and formatted for easy copy-paste."
DELIVERABLE_HEADER == "=== DELIVERABLE FORMAT ==="
DELIVERABLE_1 == "**Your Optimized Prompt:**"
DELIVERABLE_2 == "[Write the improved prompt here]"
DELIVERABLE_3 == "**Key Improvements:**"
\* The two bullets and the arrow of the placeholder are non-ASCII characters in
\* the source; "*" and "<-" stand for them here, one character each in len().
DELIVERABLE_4 == "* Bullet point 1"
DELIVERABLE_5 == "* Bullet point 2"
DELIVERABLE_6 == "**Techniques Applied:** Chain-of-thought (internal), role assignment, context layering, output specs."
DELIVERABLE_7 == "**Pro Tip:** Suggest how to iterate if the first output isn't perfect."
PLACEHOLDER == "<- Start by typing a rough prompt on the left."

\* The fixed block that closes every document (lines 115-125).
DeliverableBlock ==
    << <<DELIVERABLE_HEADER>>, <<DELIVERABLE_1>>, <<DELIVERABLE_2>>, <<>>,
       <<DELIVERABLE_3>>, <<DELIVERABLE_4>>, <<DELIVERABLE_5>>, <<>>,
       <<DELIVERABLE_6>>, <<>>, <<DELIVERABLE_7>> >>

\* The options of the two select boxes.
TargetOptions == {"ChatGPT", "Claude", "Gemini", "Other"}
ModeOptions == {"DETAIL", "BASIC"}

\* ------------------------------------------------------------ answers dict
\* A dict is a sequence of <<key, value>> pairs in insertion order.
\* {k: v for k, v in {"A1": q1, "A2": q2, "A3": q3}.items() if v.strip() != ""}
RECURSIVE FilterAnswers(_)
FilterAnswers(items) ==
    IF items = <<>> THEN <<>>
    ELSE IF strip(Head(items)[2]) # <<>>
         THEN <<Head(items)>> \o FilterAnswers(Tail(items))
         ELSE FilterAnswers(Tail(items))


\* The answers the form hands to build_prompt.
form_answers(mode, q1, q2, q3) ==
    IF mode = "DETAIL"
    THEN FilterAnswers(<< <<"A1", q1>>, <<"A2", q2>>, <<"A3", q3>> >>)
    ELSE <<>>

\* for k, v in answers_dict.items(): lines.append(f"- {k}: {v}")
RECURSIVE AnswerLines(_)
AnswerLines(answers_dict) ==
    IF answers_dict = <<>> THEN <<>>
    ELSE << <<"- ", Head(answers_dict)[1], ":", " ">> \o Head(answers_dict)[2] >>
         \o AnswerLines(Tail(answers_dict))

\* ------------------------------------------------------------ build_prompt
\* A faulty guard: the section is added whenever there are answers.
answers_section_any_mode(mode, answers_dict) ==
    IF answers_dict # <<>>
    THEN << <<ANSWERS_HEADER>> >> \o AnswerLines(answers_dict) \o << <<>> >>
    ELSE <<>>

\* if mode == "DETAIL" and answers_dict: ... (lines 103-107)
answers_section(mode, answers_dict) ==
    IF mode = "DETAIL" /\ answers_dict # <<>>
    THEN << <<ANSWERS_HEADER>> >> \o AnswerLines(answers_dict) \o << <<>> >>
    ELSE <<>>

\* A faulty section: the two optional bullets are tested without strip().
requirements_section_unstripped(tokens, extras) ==
    << <<REQUIREMENTS_HEADER>> >>
    \o (IF tokens # <<>>
        THEN << <<MAX_LENGTH_PREFIX, " ">> \o strip(tokens) >> ELSE <<>>)
    \o (IF extras # <<>>
        THEN << <<SPECIAL_PREFIX, " ">> \o strip(extras) >> ELSE <<>>)
    \o << <<CLOSING_BULLET>>, <<>> >>

\* lines 108-114
requirements_section(tokens, extras) ==
    << <<REQUIREMENTS_HEADER>> >>
    \o (IF strip(tokens) # <<>>
        THEN << <<MAX_LENGTH_PREFIX, " ">> \o strip(tokens) >> ELSE <<>>)
    \o (IF strip(extras) # <<>>
        THEN << <<SPECIAL_PREFIX, " ">> \o strip(extras) >> ELSE <<>>)
    \o << <<CLOSING_BULLET>>, <<>> >>

\* lines 96-102
input_section(rough, target_ai) ==
    << <<PREAMBLE_1A, target_ai, ".">>, <<PREAMBLE_2>>, <<PREAMBLE_3>>, <<>>,
       <<INPUT_HEADER>>, strip(rough), <<>> >>

\* A faulty assembly: the answers come after the requirements.
prompt_lines_answers_late(rough, target_ai, mode, answers_dict, tokens, extras) ==
    input_section(rough, target_ai)
    \o requirements_section(tokens, extras)
    \o answers_section(mode, answers_dict)
    \o DeliverableBlock

\* The list `lines` at the return statement, for a non-blank rough idea.
prompt_lines(rough, target_ai, mode, answers_dict, tokens, extras) ==
    input_section(rough, target_ai)
    \o answers_section(mode, answers_dict)
    \o requirements_section(tokens, extras)
    \o DeliverableBlock

\* A faulty guard: only the empty string counts as "no rough idea".
build_prompt_unstripped_guard(rough, target_ai, mode, answers_dict, tokens, extras) ==
    IF rough = <<>> THEN <<>>
    ELSE join(prompt_lines(rough, target_ai, mode, answers_dict, tokens, extras))

build_prompt(rough, target_ai, mode, answers_dict, tokens, extras) ==
    IF strip(rough) = <<>> THEN <<>>
    ELSE join(prompt_lines(rough, target_ai, mode, answers_dict, tokens, extras))

\* ------------------------------------------------ inputs of the assembler
RoughAlphabet == {"a", NL, ANSWERS_HEADER}
RoughInputs == Texts(RoughAlphabet, MaxRoughLen)
\* st.text_input values hold no line break.
AnswerInputs == {<<>>, <<" ">>, <<"b">>}
TokenInputs == {<<>>, <<" ">>, <<" ", "9">>}
\* st.text_area values may hold several lines.
ExtrasInputs ==
    {<<>>, <<" ">>, <<"x", NL, MAX_LENGTH_PREFIX, " ", "9", " ">>}

AnswerDicts ==
    {FilterAnswers(<< <<"A1", q1>>, <<"A2", q2>>, <<"A3", q3>> >>) :
        q1 \in AnswerInputs, q2 \in AnswerInputs, q3 \in AnswerInputs}

BuildArgs ==
    [rough : RoughInputs, target_ai : TargetOptions, mode : ModeOptions,
     answers : AnswerDicts, tokens : TokenInputs, extras : ExtrasInputs]

\* The lone call of build_prompt: not made yet, or returned `value`.
NotCalled == [called |-> FALSE, value |-> <<>>]
Returned(value) == [called |-> TRUE, value |-> value]
NoArgs ==
    [rough |-> <<>>, target_ai |-> "ChatGPT", mode |-> "DETAIL", answers |-> <<>>,
     tokens |-> <<>>, extras |-> <<>>]

\* ------------------------------------------------------------ len(optimized)
\* Characters of an atom: a phrase counts its characters, any other atom one.
PhraseLen ==
    (PREAMBLE_1A :> 44) @@ (PREAMBLE_2 :> 63) @@ (PREAMBLE_3 :> 54)
    @@ (INPUT_HEADER :> 13) @@ (ANSWERS_HEADER :> 20) @@ (REQUIREMENTS_HEADER :> 20)
    @@ (MAX_LENGTH_PREFIX :> 20) @@ (SPECIAL_PREFIX :> 22) @@ (CLOSING_BULLET :> 74)
    @@ (DELIVERABLE_HEADER :> 26) @@ (DELIVERABLE_1 :> 26) @@ (DELIVERABLE_2 :> 32)
    @@ (DELIVERABLE_3 :> 21) @@ (DELIVERABLE_4 :> 16) @@ (DELIVERABLE_5 :> 16)
    @@ (DELIVERABLE_6 :> 101) @@ (DELIVERABLE_7 :> 70)
    @@ ("ChatGPT" :> 7) @@ ("Claude" :> 6) @@ ("Gemini" :> 6) @@ ("Other" :> 5)
    @@ ("- " :> 2) @@ ("A1" :> 2) @@ ("A2" :> 2) @@ ("A3" :> 2)

RECURSIVE len(_)
len(text) ==
    IF text = <<>> THEN 0
    ELSE (IF Head(text) \in DOMAIN PhraseLen THEN PhraseLen[Head(text)] ELSE 1)
         + len(Tail(text))

\* ------------------------------------------------------------- json.dumps
RECURSIVE json_items(_)
json_items(answers_dict) ==
    IF answers_dict = <<>> THEN <<>>
    ELSE <<"\"", Head(answers_dict)[1], "\"", ":", " ", "\"">>
         \o Head(answers_dict)[2] \o <<"\"">>
         \o (IF Len(answers_dict) > 1 THEN <<",", " ">> ELSE <<>>)
         \o json_items(Tail(answers_dict))

json_dumps(answers_dict) == <<"{">> \o json_items(answers_dict) \o <<"}">>

\* --------------------------------------------------------- pandas: values
\* A cell of a DataFrame: a str, an int64, a float64 (always integral here)
\* or NaN.
StrValue(t) == [kind |-> "str", text |-> t, num |-> 0]
IntValue(n) == [kind |-> "int", text |-> <<>>, num |-> n]
FloatValue(n) == [kind |-> "float", text |-> <<>>, num |-> n]
NaN == [kind |-> "nan", text |-> <<>>, num |-> 0]

Digits == {"0", "1", "2", "3", "4", "5", "6", "7", "8", "9"}
DigitValue ==
    ("0" :> 0) @@ ("1" :> 1) @@ ("2" :> 2) @@ ("3" :> 3) @@ ("4" :> 4)
    @@ ("5" :> 5) @@ ("6" :> 6) @@ ("7" :> 7) @@ ("8" :> 8) @@ ("9" :> 9)
DigitChar == <<"1", "2", "3", "4", "5", "6", "7", "8", "9">>

RECURSIVE ParseInt(_)
ParseInt(t) ==
    IF t = <<>> THEN 0
    ELSE 10 * ParseInt(SubSeq(t, 1, Len(t) - 1)) + DigitValue[t[Len(t)]]

\* str(n) of a non-negative int
RECURSIVE FormatInt(_)
FormatInt(n) ==
    LET d == IF n % 10 = 0 THEN "0" ELSE DigitChar[n % 10]
    IN IF n < 10 THEN <<d>> ELSE FormatInt(n \div 10) \o <<d>>

\* The cell texts read_csv takes for missing values (of pandas' list, the one
\* the inputs of this model can produce: the empty field).
NaTexts == {<<>>}

IsIntText(t) == t # <<>> /\ \A i \in 1..Len(t) : t[i] \in Digits
\* Of the float spellings, the one to_csv itself writes: digits, ".", digits.
IsFloatText(t) ==
    \/ IsIntText(t)
    \/ \E k \in 1..Len(t) :
          /\ t[k] = "."
          /\ IsIntText(SubSeq(t, 1, k - 1))
          /\ IsIntText(SubSeq(t, k + 1, Len(t)))
          /\ ParseInt(SubSeq(t, k + 1, Len(t))) = 0
FloatOf(t) ==
    IF IsIntText(t) THEN ParseInt(t)
    ELSE LET k == CHOOSE j \in 1..Len(t) : t[j] = "." IN ParseInt(SubSeq(t, 1, k - 1))

\* --------------------------------------------------------- pandas: read_csv
\* A CSV file on disk: absent, present but unparseable, or its data rows.
Absent == [exists |-> FALSE, parses |-> FALSE, rows |-> <<>>]
Malformed == [exists |-> TRUE, parses |-> FALSE, rows |-> <<>>]
File(rows) == [exists |-> TRUE, parses |-> TRUE, rows |-> rows]

Columns ==
    {"timestamp", "target_ai", "mode", "rough", "answers_json", "tokens", "extras",
     "optimized_len"}

\* The dtype read_csv infers for a column from all of its cells.
ColumnKind(cells) ==
    LET present == {t \in cells : t \notin NaTexts}
    IN IF present = {} THEN "float"
       ELSE IF \A t \in present : IsIntText(t)
            THEN (IF present = cells THEN "int" ELSE "float")
       ELSE IF \A t \in present : IsFloatText(t) THEN "float"
       ELSE "object"

ParseCell(kind, t) ==
    IF t \in NaTexts THEN NaN
    ELSE IF kind = "int" THEN IntValue(ParseInt(t))
    ELSE IF kind = "float" THEN FloatValue(FloatOf(t))
    ELSE StrValue(t)


\* pd.read_csv(history_path) of a well-formed file: a sequence of rows, each
\* a function from the column names to cell texts.
read_csv(file) ==
    [i \in 1..Len(file.rows) |->
        [c \in Columns |->
            ParseCell(ColumnKind({file.rows[j][c] : j \in 1..Len(file.rows)}),
                      file.rows[i][c])]]

\* A faulty loader: a malformed file is taken for an empty table.
read_csv_raises_never(file) == FALSE

\* pd.read_csv raises on a file it cannot parse.
read_csv_raises(file) == file.exists /\ ~file.parses

\* ----------------------------------------------------------- pandas: to_csv
FormatValue(v) ==
    IF v.kind = "str" THEN v.text
    ELSE IF v.kind = "int" THEN FormatInt(v.num)
    ELSE IF v.kind = "float" THEN FormatInt(v.num) \o <<".", "0">>
    ELSE <<>>

\* The data rows to_csv writes for a table.
csv_rows(df) == [i \in 1..Len(df) |-> [c \in Columns |-> FormatValue(df[i][c])]]

\* dfh.to_csv(history_path, index=False): the file it leaves.
to_csv(df) == File(csv_rows(df))

\* pd.DataFrame([row])
DataFrameOfRow(row) ==
    << [c \in Columns |->
          IF c = "optimized_len" THEN IntValue(row[c]) ELSE StrValue(row[c])] >>

\* A faulty concat: the new row is put first.
concat_new_first(dfh, new) == new \o dfh

\* pd.concat([dfh, pd.DataFrame([row])], ignore_index=True)
concat(dfh, new) == dfh \o new

\* dfh.tail(n)
tail(df, n) == IF Len(df) <= n THEN df ELSE SubSeq(df, Len(df) - n + 1, Len(df))

HISTORY_TAIL == 20

\* ------------------------------------------------------------ the templates
\* templates.csv, when it exists: its rows.
TemplateRows ==
    << [ID |-> 1, Category |-> "Sales", RoughIdea |-> <<"a">>],
       [ID |-> 2, Category |-> "Code", RoughIdea |-> <<"a">>] >>

TemplateFiles == {Absent, File(TemplateRows)}

\* Alphabetical order of the category names.
CategoryRank == ("All" :> 0) @@ ("Code" :> 1) @@ ("Sales" :> 2)

RECURSIVE sorted(_)
sorted(S) ==
    IF S = {} THEN <<>>
    ELSE LET least == CHOOSE x \in S : \A y \in S : CategoryRank[x] <= CategoryRank[y]
         IN <<least>> \o sorted(S \ {least})

\* A faulty load: the file is read without the exists() test.
load_templates_unguarded(file) ==
    IF ~file.exists THEN [raised |-> TRUE, df |-> <<>>]
    ELSE [raised |-> FALSE, df |-> file.rows]

\* lines 12-16: the table of templates, empty when templates.csv is absent.
load_templates(file) ==
    IF file.exists THEN [raised |-> FALSE, df |-> file.rows]
    ELSE [raised |-> FALSE, df |-> <<>>]

\* ["All"] + sorted(templates_df["Category"].unique().tolist())
category_list(df) == <<"All">> \o sorted({df[i].Category : i \in 1..Len(df)})

\* templates_df if cat_choice == "All" else templates_df[Category == cat_choice]
category_subset(df, cat_choice) ==
    IF cat_choice = "All" THEN df ELSE SelectSeq(df, LAMBDA r : r.Category = cat_choice)

\* f"[{r.Category}] {r['Rough Idea']}"
label(r) == <<"[", r.Category, "]", " ">> \o r.RoughIdea

\* label_map[pick]: a dict keeps the last row of a label.
label_id(subset, pick) ==
    LET last == CHOOSE i \in 1..Len(subset) :
                    /\ label(subset[i]) = pick
                    /\ \A j \in (i + 1)..Len(subset) : label(subset[j]) # pick
    IN subset[last].ID

\* templates_df.loc[templates_df.ID == id].iloc[0]
template_by_id(df, id) ==
    df[CHOOSE i \in 1..Len(df) : df[i].ID = id /\ \A j \in 1..(i - 1) : df[j].ID # id]

\* `selected = None`
None == [ID |-> 0, Category |-> "", RoughIdea |-> <<>>]
NoPick == <<"(none)">>

\* ---------------------------------------------------------- the form inputs
\* What the user of one render types and ticks.
SidebarTargets == {"ChatGPT"}
TypedRough == {<<>>, <<" ">>, <<"a">>}
TypedAnswer == {<<>>, <<"b">>}
TypedTokens == {<<>>, <<"5">>, <<"0", "5">>}
TypedExtras == {<<>>}

\* ------------------------------------------------------------------ the page
\* The page of a run that has drawn nothing yet.
NoButton == [data |-> <<>>, file_name |-> "", disabled |-> TRUE]
BlankPage ==
    [code |-> <<>>, txt |-> NoButton, md |-> NoButton,
     history |-> [kind |-> "", rows |-> <<>>]]

\* A faulty button: it is disabled by the rough idea, not by the output.
download_button_by_rough(optimized, rough, file_name) ==
    [data |-> optimized, file_name |-> file_name, disabled |-> (rough = <<>>)]

\* st.download_button(..., data=optimized, file_name=..., disabled=not optimized)
download_button(optimized, rough, file_name) ==
    [data |-> optimized, file_name |-> file_name, disabled |-> (optimized = <<>>)]

\* A faulty test: every render with auto-save on is saved.
should_save_any_output(export_history, optimized) == export_history

\* if export_history and optimized:
should_save(export_history, optimized) == export_history /\ optimized # <<>>

\* lines 145-154
history_row(clock, form, optimized) ==
    [timestamp |-> <<"utc">> \o FormatInt(clock),
     target_ai |-> <<form.target_ai>>,
     mode |-> <<form.mode>>,
     rough |-> form.rough,
     answers_json |-> json_dumps(form.answers),
     tokens |-> form.tokens,
     extras |-> form.extras,
     optimized_len |-> len(optimized)]

\* --------------------------------------------------------------- the state
VARIABLES
    args,            \* the arguments of a lone build_prompt call
    result,          \* what that call returned
    templates_file,  \* templates.csv: Absent or its rows
    history_file,    \* history.csv: Absent, Malformed or its data rows (texts)
    pc,              \* where the script run is
    renders,         \* script runs started so far (the clock of the timestamps)
    form,            \* the widgets' values of this run
    optimized,       \* the variable `optimized`
    page,            \* the elements this run has put on the page
    history_before,  \* history.csv as this run found it
    written          \* the rows of the saving runs, as each first wrote its own

vars ==
    <<args, result, templates_file, history_file, pc, renders, form, optimized,
      page, history_before, written>>

app_vars ==
    <<templates_file, history_file, pc, renders, form, optimized, page,
      history_before, written>>

NoForm ==
    [target_ai |-> "ChatGPT", mode |-> "DETAIL", categories |-> <<>>, templates |-> 0,
     selected |-> None, default_text |-> <<>>, rough |-> <<>>, answers |-> <<>>,
     tokens |-> <<>>, extras |-> <<>>, export_history |-> FALSE]

AppStart ==
    /\ pc = "idle"
    /\ renders = 0
    /\ form = NoForm
    /\ optimized = <<>>
    /\ page = BlankPage
    /\ history_before = history_file
    /\ written = <<>>

\* ------------------------------------------------- the assembler on its own
InitBuild ==
    /\ args \in BuildArgs
    /\ result = NotCalled
    /\ templates_file = Absent
    /\ history_file = Absent
    /\ AppStart

CallBuildPrompt ==
    /\ ~result.called
    /\ result' = Returned(build_prompt(args.rough, args.target_ai, args.mode,
                                       args.answers, args.tokens, args.extras))
    /\ UNCHANGED <<args, app_vars>>

NextBuild == CallBuildPrompt

SpecBuild == InitBuild /\ [][NextBuild]_vars

\* ------------------------------------------------------------ the app
Init ==
    /\ args = NoArgs
    /\ result = NotCalled
    /\ templates_file \in TemplateFiles
    /\ history_file \in {Absent, Malformed}
    /\ AppStart

\* Lines 12-85: the templates are loaded, the sidebar and the left column
\* read the widgets.
RunForm ==
    /\ pc \in {"idle", "done", "failed"}
    /\ renders < MaxRenders
    /\ renders' = renders + 1
    /\ history_before' = history_file
    /\ page' = BlankPage
    /\ optimized' = <<>>
    /\ LET loaded == load_templates(templates_file)
           templates_df == loaded.df
       IN IF loaded.raised
          THEN /\ pc' = "crashed"
               /\ form' = NoForm
          ELSE
            /\ pc' = "right"
            /\ \E target_ai \in SidebarTargets, mode \in ModeOptions,
                  export_history \in BOOLEAN,
                  q1 \in TypedAnswer, tokens \in TypedTokens, extras \in TypedExtras :
                 \E cat_choice \in (IF templates_df # <<>>
                                    THEN {category_list(templates_df)[i] :
                                            i \in 1..Len(category_list(templates_df))}
                                    ELSE {"All"}) :
                   LET subset == IF templates_df # <<>>
                                 THEN category_subset(templates_df, cat_choice)
                                 ELSE <<>>
                   IN \E pick \in {NoPick} \cup {label(subset[i]) : i \in 1..Len(subset)} :
                        LET selected == IF pick # NoPick
                                        THEN template_by_id(templates_df,
                                                            label_id(subset, pick))
                                        ELSE None
                            default_text == IF selected # None THEN selected.RoughIdea
                                            ELSE <<>>
                        IN \E rough \in {default_text} \cup TypedRough :
                             form' = [target_ai |-> target_ai,
                                      mode |-> mode,
                                      categories |-> IF templates_df # <<>>
                                                     THEN category_list(templates_df)
                                                     ELSE <<>>,
                                      templates |-> Len(templates_df),
                                      selected |-> selected,
                                      default_text |-> default_text,
                                      rough |-> rough,
                                      answers |-> form_answers(mode, q1, <<>>, <<>>),
                                      tokens |-> tokens,
                                      extras |-> extras,
                                      export_history |-> export_history]
    /\ UNCHANGED <<args, result, templates_file, history_file, written>>

\* Lines 88-138: the prompt is assembled and shown, the buttons are drawn.
RenderOutput ==
    /\ pc = "right"
    /\ LET out == build_prompt(form.rough, form.target_ai, form.mode, form.answers,
                               form.tokens, form.extras)
       IN /\ optimized' = out
          /\ page' = [page EXCEPT
                        !.code = IF out # <<>> THEN out ELSE <<PLACEHOLDER>>,
                        !.txt = download_button(out, form.rough, "optimized_prompt.txt"),
                        !.md = download_button(out, form.rough, "optimized_prompt.md")]
    /\ pc' = "history"
    /\ UNCHANGED <<args, result, templates_file, history_file, renders, form,
                   history_before, written>>

\* Lines 143-160: the row of this run is appended to history.csv.
HistoryAppend ==
    /\ pc = "history"
    /\ IF should_save(form.export_history, optimized)
       THEN LET row == history_row(renders, form, optimized)
            IN IF history_file.exists
               THEN IF read_csv_raises(history_file)
                    THEN /\ pc' = "failed"
                         /\ page' = [page EXCEPT !.history.kind = "exception"]
                         /\ UNCHANGED <<history_file, written>>
                    ELSE /\ pc' = "display"
                         /\ history_file' =
                                to_csv(concat(read_csv(history_file), DataFrameOfRow(row)))
                         /\ written' = written \o csv_rows(DataFrameOfRow(row))
                         /\ UNCHANGED page
               ELSE /\ pc' = "display"
                    /\ history_file' = to_csv(DataFrameOfRow(row))
                    /\ written' = written \o csv_rows(DataFrameOfRow(row))
                    /\ UNCHANGED page
       ELSE /\ pc' = "display"
            /\ UNCHANGED <<history_file, written, page>>
    /\ UNCHANGED <<args, result, templates_file, renders, form, optimized,
                   history_before>>

\* Lines 162-166: the last rows of history.csv are shown.
HistoryDisplay ==
    /\ pc = "display"
    /\ IF history_file.exists
       THEN IF read_csv_raises(history_file)
            THEN /\ pc' = "failed"
                 /\ page' = [page EXCEPT !.history.kind = "exception"]
            ELSE /\ pc' = "done"
                 /\ page' = [page EXCEPT
                               !.history = [kind |-> "dataframe",
                                            rows |-> tail(read_csv(history_file),
                                                          HISTORY_TAIL)]]
       ELSE /\ pc' = "done"
            /\ page' = [page EXCEPT !.history.kind = "caption"]
    /\ UNCHANGED <<args, result, templates_file, history_file, renders, form,
                   optimized, history_before, written>>

Next == RunForm \/ RenderOutput \/ HistoryAppend \/ HistoryDisplay

Spec == Init /\ [][Next]_vars

\* ======================================================= the assembler
\* What the claims speak of, stated without the operators of the code.
Blank(s) == \A i \in 1..Len(s) : s[i] \in {" ", NL}

\* s without its leading and trailing whitespace.
Trimmed(s) ==
    IF Blank(s) THEN <<>>
    ELSE LET first == CHOOSE i \in 1..Len(s) :
                         s[i] \notin {" ", NL} /\ \A j \in 1..(i - 1) : s[j] \in {" ", NL}
             last == CHOOSE i \in 1..Len(s) :
                         s[i] \notin {" ", NL} /\ \A j \in (i + 1)..Len(s) : s[j] \in {" ", NL}
         IN SubSeq(s, first, last)

\* The returned document, line by line.
NoLine == <<"(no such line)">>
Line(lines, i) == IF i \in 1..Len(lines) THEN lines[i] ELSE NoLine

Assembled == result.called /\ ~Blank(args.rough)
AnswersIncluded == args.mode = "DETAIL" /\ args.answers # <<>>

\* Where each section starts in a document built as section 4.2 says, for a
\* trimmed rough idea of k lines and a document of n lines.
InputAt == 5
AfterInput(k) == 7 + k
RequirementsAt(k) == AfterInput(k) + (IF AnswersIncluded THEN Len(args.answers) + 2 ELSE 0)
DeliverableAt(n) == n - 10

MaxLengthBullet == <<MAX_LENGTH_PREFIX, " ">> \o Trimmed(args.tokens)
SpecialBulletLines == split(<<SPECIAL_PREFIX, " ">> \o Trimmed(args.extras))

\* C4: build_prompt returns "" for an empty or whitespace-only rough idea,
\* whatever the other arguments; otherwise a non-empty document that opens
\* with the preamble and the INPUT section, whose lines are the trimmed rough
\* idea verbatim, and that holds the REQUIREMENTS header, the closing bullet
\* and the whole DELIVERABLE FORMAT block.
C4_EmptyOrFullDocument ==
    result.called =>
        IF Blank(args.rough) THEN result.value = <<>>
        ELSE LET L == split(result.value)
                 rough_lines == split(Trimmed(args.rough))
                 k == Len(rough_lines)
             IN /\ result.value # <<>>
                /\ Line(L, 1) = <<PREAMBLE_1A, args.target_ai, ".">>
                /\ Line(L, 2) = <<PREAMBLE_2>>
                /\ Line(L, 3) = <<PREAMBLE_3>>
                /\ Line(L, 4) = <<>>
                /\ Line(L, InputAt) = <<INPUT_HEADER>>
                /\ SubSeq(L, InputAt + 1, InputAt + k) = rough_lines
                /\ Line(L, AfterInput(k) - 1) = <<>>
                /\ Line(L, RequirementsAt(k)) = <<REQUIREMENTS_HEADER>>
                /\ Line(L, DeliverableAt(Len(L)) - 2) = <<CLOSING_BULLET>>
                /\ SubSeq(L, DeliverableAt(Len(L)), Len(L)) = DeliverableBlock

\* A rough idea that strip() shortens, in DETAIL mode with answers, so that
\* the sections after INPUT are pushed down.
C4_Witness ==
    /\ Assembled
    /\ Trimmed(args.rough) # args.rough
    /\ Len(Trimmed(args.rough)) = 2
    /\ AnswersIncluded

\* C5: for a non-empty rough idea the USER ANSWERS section is in the
\* document iff mode is DETAIL and the filtered answers are non-empty (never
\* in BASIC mode): it then follows the INPUT section with one
\* "- <slot>: <value>" line per answer, A1 before A2 before A3; otherwise
\* REQUIREMENTS follows INPUT directly.
SlotRank == ("A1" :> 1) @@ ("A2" :> 2) @@ ("A3" :> 3)
C5_AnswersSection ==
    Assembled =>
        LET L == split(result.value)
            p == AfterInput(Len(split(Trimmed(args.rough))))
        IN IF args.mode = "DETAIL" /\ args.answers # <<>>
           THEN /\ Line(L, p) = <<ANSWERS_HEADER>>
                /\ \A n \in 1..Len(args.answers) :
                      Line(L, p + n) =
                          <<"- ", args.answers[n][1], ":", " ">> \o args.answers[n][2]
                /\ \A m, n \in 1..Len(args.answers) :
                      m < n => SlotRank[args.answers[m][1]] < SlotRank[args.answers[n][1]]
                /\ \A n \in 1..Len(args.answers) : ~Blank(args.answers[n][2])
                /\ Line(L, p + Len(args.answers) + 1) = <<>>
                /\ Line(L, p + Len(args.answers) + 2) = <<REQUIREMENTS_HEADER>>
           ELSE Line(L, p) = <<REQUIREMENTS_HEADER>>

C5_Witness == Assembled /\ args.mode = "DETAIL" /\ Len(args.answers) = 2

\* C6: for a non-empty rough idea the document is the preamble, INPUT,
\* USER ANSWERS (when included), REQUIREMENTS and DELIVERABLE FORMAT in this
\* order, a blank line before each section, and outside the user's own text
\* no section header stands anywhere else (each section is there once).
Headers ==
    {<<INPUT_HEADER>>, <<ANSWERS_HEADER>>, <<REQUIREMENTS_HEADER>>, <<DELIVERABLE_HEADER>>}
\* The lines that are the user's text: the k lines of the rough idea, and the
\* lines of the extra instructions after the first.
UserLineAt(i, k) ==
    \/ i \in (InputAt + 1)..(InputAt + k)
    \/ /\ ~Blank(args.extras)
       /\ LET first == RequirementsAt(k) + (IF Blank(args.tokens) THEN 1 ELSE 2)
          IN i \in (first + 1)..(first + Len(SpecialBulletLines) - 1)
C6_SectionOrder ==
    Assembled =>
        LET L == split(result.value)
            k == Len(split(Trimmed(args.rough)))
            req == RequirementsAt(k)
            del == DeliverableAt(Len(L))
        IN /\ SubSeq(L, 1, 4) =
                 << <<PREAMBLE_1A, args.target_ai, ".">>, <<PREAMBLE_2>>, <<PREAMBLE_3>>,
                    <<>> >>
           /\ Line(L, InputAt) = <<INPUT_HEADER>>
           /\ Line(L, AfterInput(k) - 1) = <<>>
           /\ AnswersIncluded => Line(L, AfterInput(k)) = <<ANSWERS_HEADER>>
           /\ Line(L, req - 1) = <<>>
           /\ Line(L, req) = <<REQUIREMENTS_HEADER>>
           /\ Line(L, del - 1) = <<>>
           /\ Line(L, del) = <<DELIVERABLE_HEADER>>
           /\ InputAt < AfterInput(k) /\ AfterInput(k) <= req /\ req < del
           /\ \A i \in 1..Len(L) :
                 (L[i] \in Headers /\ ~UserLineAt(i, k)) =>
                     i \in {InputAt, req, del}
                           \cup (IF AnswersIncluded THEN {AfterInput(k)} ELSE {})

C6_Witness ==
    /\ Assembled
    /\ AnswersIncluded
    /\ Len(split(Trimmed(args.rough))) = 2
    /\ ~Blank(args.tokens)
    /\ Len(SpecialBulletLines) = 2

\* C7: for a non-empty rough idea the REQUIREMENTS section is present; under
\* its header stand the max-length bullet iff max_length is non-empty after
\* trimming, then the special-constraints bullet iff extra_instructions is
\* non-empty after trimming, then the fixed closing bullet, and nothing else:
\* with both empty, the closing bullet alone.
C7_Requirements ==
    Assembled =>
        LET L == split(result.value)
            req == RequirementsAt(Len(split(Trimmed(args.rough))))
            body == SubSeq(L, req + 1, DeliverableAt(Len(L)) - 2)
        IN /\ Line(L, req) = <<REQUIREMENTS_HEADER>>
           /\ body # <<>>
           /\ body[1] = MaxLengthBullet <=> ~Blank(args.tokens)
           /\ body = (IF Blank(args.tokens) THEN <<>> ELSE <<MaxLengthBullet>>)
                     \o (IF Blank(args.extras) THEN <<>> ELSE SpecialBulletLines)
                     \o << <<CLOSING_BULLET>> >>
           /\ (\E i \in 1..Len(body) : body[i] # <<>> /\ body[i][1] = SPECIAL_PREFIX)
                 <=> ~Blank(args.extras)
           /\ body[Len(body)] = <<CLOSING_BULLET>>
           /\ (Blank(args.tokens) /\ Blank(args.extras)) =>
                  body = << <<CLOSING_BULLET>> >>

C7_Witness ==
    /\ Assembled
    /\ ~Blank(args.tokens) /\ Trimmed(args.tokens) # args.tokens
    /\ ~Blank(args.extras) /\ Trimmed(args.extras) # args.extras

\* ============================================================== the app
\* The run has assembled the prompt and drawn the right column.
OutputDrawn == pc \in {"history", "display", "done", "failed"}
\* The run is past the append step.
AppendDone == pc \in {"display", "done"}
\* Auto-save is on and the optimized prompt is non-empty.
SaveWanted == form.export_history /\ optimized # <<>>
LastRow(rows) == rows[Len(rows)]

\* C1: starting from no log file, the log holds exactly the rows built by
\* the saving renders, each as it was written, in call order, and the
\* history shown is the last min(20, N) of them.
C1_LogIsRowsInCallOrder ==
    (history_file.parses \/ ~history_file.exists) =>
        /\ history_file.rows = written
        /\ history_file.exists <=> written # <<>>
        /\ (pc = "done" /\ history_file.exists) =>
               Len(page.history.rows) =
                   (IF Len(written) < HISTORY_TAIL THEN Len(written) ELSE HISTORY_TAIL)

\* The part of C1 the code keeps: the number of rows and their order (the
\* timestamps, one per saving render, strictly increasing down the file).
C1_CountAndOrderKept ==
    (history_file.parses \/ ~history_file.exists) =>
        /\ Len(history_file.rows) = Len(written)
        /\ \A i \in 1..Len(written) :
              history_file.rows[i].timestamp = written[i].timestamp

\* C2: a render appends exactly one row, its own, when auto-save is on and
\* the optimized prompt is non-empty; otherwise (auto-save off, or an empty
\* or whitespace-only rough idea) it leaves history.csv as it found it, not
\* even creating it; assembling and drawing the prompt writes nothing.  (A
\* run whose load of a malformed log raises never gets past the append step;
\* it leaves the file as it found it too.)
C2_AppendExactlyOne ==
    /\ pc \in {"right", "history", "failed"} => history_file = history_before
    /\ OutputDrawn => (optimized = <<>> <=> Blank(form.rough))
    /\ AppendDone =>
          IF form.export_history /\ optimized # <<>>
          THEN /\ history_file.exists /\ history_file.parses
               /\ Len(history_file.rows) = Len(history_before.rows) + 1
               /\ LastRow(history_file.rows).timestamp = <<"utc">> \o FormatInt(renders)
               /\ LastRow(history_file.rows).rough = form.rough
               /\ LastRow(history_file.rows).tokens = form.tokens
               /\ LastRow(history_file.rows).extras = form.extras
               /\ LastRow(history_file.rows).mode = <<form.mode>>
               /\ LastRow(history_file.rows).target_ai = <<form.target_ai>>
          ELSE history_file = history_before

\* A second saving render: the row is appended to an existing log.
C2_Witness == pc = "done" /\ SaveWanted /\ Len(history_file.rows) = 2

\* Auto-save on, whitespace-only rough idea, no log file: none is created.
C2_WitnessNoSave ==
    /\ pc = "done" /\ form.export_history /\ form.rough # <<>> /\ Blank(form.rough)
    /\ ~history_file.exists

\* C3: when the existing history.csv is malformed, the run stops in the
\* history block (at the append when it saves, at the display otherwise) and
\* nowhere earlier: the optimized prompt is on the page, both downloads are
\* drawn as in any other run, and the file is untouched.  No other run fails.
C3_LogFailureIsLocal ==
    /\ pc = "failed" =>
          /\ history_before = Malformed /\ history_file = Malformed
          /\ page.history.kind = "exception"
          /\ optimized = <<>> <=> Blank(form.rough)
          /\ page.code = (IF optimized # <<>> THEN optimized ELSE <<PLACEHOLDER>>)
          /\ page.txt = [data |-> optimized, file_name |-> "optimized_prompt.txt",
                         disabled |-> (optimized = <<>>)]
          /\ page.md = [data |-> optimized, file_name |-> "optimized_prompt.md",
                        disabled |-> (optimized = <<>>)]
    /\ pc = "done" => history_before # Malformed
    /\ (pc = "display" /\ history_before = Malformed) => ~SaveWanted
    /\ pc # "crashed"

\* The append path: auto-save on, a non-empty prompt, a malformed log.
C3_Witness == pc = "failed" /\ SaveWanted /\ ~page.txt.disabled

\* The display-only path.
C3_WitnessDisplay == pc = "failed" /\ ~form.export_history /\ optimized # <<>>

\* C8: in every render both downloads are enabled exactly when the optimized
\* prompt is non-empty (disabled for an empty or whitespace-only rough
\* idea); both carry the optimized prompt, which is what the page shows, and
\* differ in the file name alone.
C8_Downloads ==
    OutputDrawn =>
        /\ page.txt.disabled <=> optimized = <<>>
        /\ page.md.disabled <=> optimized = <<>>
        /\ page.txt.disabled <=> Blank(form.rough)
        /\ page.txt.data = optimized /\ page.md.data = optimized
        /\ optimized # <<>> => page.code = optimized
        /\ page.txt.file_name = "optimized_prompt.txt"
        /\ page.md.file_name = "optimized_prompt.md"
        /\ [page.txt EXCEPT !.file_name = page.md.file_name] = page.md

\* A whitespace-only rough idea: a non-empty input, both downloads disabled.
C8_Witness ==
    /\ pc = "done" /\ form.rough # <<>> /\ Blank(form.rough)
    /\ page.txt.disabled /\ page.md.disabled

C8_WitnessEnabled == pc = "done" /\ ~page.txt.disabled /\ ~page.md.disabled

\* C9: with no templates.csv the load raises nothing and gives no template
\* and no category; the run goes on with nothing selected and the empty
\* default for the rough idea, and assembles, draws the downloads and saves
\* from the form alone.
C9_NoTemplateFile ==
    /\ pc # "crashed"
    /\ (~templates_file.exists /\ pc # "idle") =>
          /\ form.templates = 0
          /\ form.categories = <<>>
          /\ form.selected = None
          /\ form.default_text = <<>>
          /\ OutputDrawn =>
                /\ optimized = <<>> <=> Blank(form.rough)
                /\ page.txt.disabled <=> optimized = <<>>
          /\ AppendDone =>
                (history_file # history_before <=> (form.export_history /\ optimized # <<>>))
    /\ (templates_file.exists /\ pc # "idle") =>
          /\ form.templates = Len(templates_file.rows)
          /\ form.default_text = form.selected.RoughIdea

\* No templates.csv, and the run assembles, saves and displays.
C9_Witness ==
    /\ ~templates_file.exists /\ pc = "done" /\ SaveWanted
    /\ page.history.kind = "dataframe"

\* C10: a run assembles, then appends, then reads and displays: the history
\* it shows after saving a row ends with that row; a run that saved nothing
\* shows the last rows of the log as it found it, or the "no sessions" notice
\* when there is no log, and leaves the file alone.  Nothing of the history
\* is on the page before the display step.
C10_StepOrder ==
    /\ pc \in {"right", "history", "display"} => page.history.kind = ""
    /\ pc = "right" => page.code = <<>>
    /\ pc = "done" =>
          IF form.export_history /\ optimized # <<>>
          THEN /\ page.history.kind = "dataframe"
               /\ Len(page.history.rows) = Len(history_before.rows) + 1
               /\ page.history.rows = tail(read_csv(history_file), HISTORY_TAIL)
               /\ LastRow(page.history.rows).timestamp =
                      StrValue(<<"utc">> \o FormatInt(renders))
               /\ LastRow(page.history.rows).rough = StrValue(form.rough)
               /\ LastRow(page.history.rows).mode = StrValue(<<form.mode>>)
               /\ LastRow(page.history.rows).optimized_len.num = len(optimized)
               /\ \A i \in 1..Len(history_before.rows) :
                     page.history.rows[i].timestamp =
                         StrValue(history_before.rows[i].timestamp)
          ELSE /\ history_file = history_before
               /\ IF history_before.exists
                  THEN /\ page.history.kind = "dataframe"
                       /\ page.history.rows = tail(read_csv(history_before), HISTORY_TAIL)
                       /\ page.history.rows # <<>>
                  ELSE page.history.kind = "caption" /\ page.history.rows = <<>>

\* The second render saves: the table shows the first render's row, then its own.
C10_Witness == pc = "done" /\ SaveWanted /\ Len(page.history.rows) = 2

\* A render that saves nothing shows the row an earlier render saved.
C10_WitnessNoSave == pc = "done" /\ ~SaveWanted /\ Len(page.history.rows) = 1

====
